---- MODULE Spec2Model ----
(***************************************************************************)
(* Model of the "Generieren" handler of src/app.py: the pipeline           *)
(*   generate_article -> judge_article -> (optional) maybe_revise          *)
(* run for the two outlets express.de and ksta.de inside one try block,    *)
(* followed by the rendering of both results.                              *)
(*                                                                         *)
(* Conventions                                                             *)
(*  - A Python dict is a function whose domain is its key set; dict.get    *)
(*    is Get.  None is the record NoneVal.                                 *)
(*  - A text string that the code strips is a tuple of characters, so      *)
(*    that str.strip() is computed (Strip) and not the identity.           *)
(*  - Scores are in hundredths: 0.98 is 98, 0.90 is 90.                    *)
(*  - A Python function that may raise is an operator returning            *)
(*    [ok |-> TRUE, val |-> v] or [ok |-> FALSE, err |-> e].               *)
(*  - A response of the chat capability (chat_call) is a record            *)
(*    [kind, data]: kind "transport" is a raised transport failure,        *)
(*    "garbage" a text json.loads rejects, "array" a text that parses to   *)
(*    a JSON list, "object" a text that parses to the dict data.           *)
(***************************************************************************)
EXTENDS Integers, Sequences, FiniteSets, TLC

VARIABLES
    pc,             \* position in the handler: <<stage, outlet>>
    enable_revise,  \* sidebar checkbox "Auto-Revise 1x"
    art,            \* art[o]: art_ex / art_ks
    qc,             \* qc[o]: qc_ex / qc_ks
    fixed,          \* local of maybe_revise between correction and re-judge
    raw,            \* the response most recently returned by chat_call
    req,            \* the request most recently sent through chat_call
    calls,          \* history: every chat_call issued in the run, in order
    judged,         \* history: judged[o] = last <<article, verdict>> judge_article returned for o
    banner,         \* st.error / st.warning / st.success shown
    err,            \* the exception text shown by st.error
    failedAt,       \* position at which the exception was raised
    rendered,       \* rendered[o]: what render_block displayed for o
    focus,          \* input selection: the outlet whose responses range over
                    \* the full families; the other outlet's range over the
                    \* short ones (the outlets share no data)
    canon,          \* coerce_json alone: the clean object text the input is made from
    noise,          \* coerce_json alone: how the input differs from the clean text
    text,           \* coerce_json alone: its argument
    coerced         \* coerce_json alone: what it returned or raised

\* the variables of the study of coerce_json on texts
cvars == <<canon, noise, text, coerced>>

vars == <<pc, enable_revise, art, qc, fixed, raw, req, calls, judged,
          banner, err, failedAt, rendered, focus, cvars>>

----------------------------------------------------------------------------
(* Bounds of the explored inputs *)

\* number of distinct full article texts a writer response may carry
MaxText == 2
\* largest number of required fields missing from one writer response
MaxMissing == 2

----------------------------------------------------------------------------
(* Program constants *)

EX == "express.de"
KS == "ksta.de"
Outlets == {EX, KS}

\* THRESHOLDS, in hundredths
THRESHOLD_FACTUAL == 98
THRESHOLD_STYLE == 90

FLAGS == <<"length_ok", "structure_ok", "safety_ok">>

NoneVal == [none |-> TRUE]
EmptyDict == [k \in {} |-> ""]

----------------------------------------------------------------------------
(* Python helpers *)

Get(d, k, default) == IF k \in DOMAIN d THEN d[k] ELSE default

Del(d, K) == [k \in (DOMAIN d) \ K |-> d[k]]

Range(s) == {s[i] : i \in DOMAIN s}

RECURSIVE LStrip(_)
LStrip(s) == IF s # <<>> /\ Head(s) = " " THEN LStrip(Tail(s)) ELSE s

RECURSIVE RStrip(_)
RStrip(s) == IF s # <<>> /\ s[Len(s)] = " " THEN RStrip(SubSeq(s, 1, Len(s) - 1)) ELSE s

\* str.strip()
Strip(s) == RStrip(LStrip(s))

Ok(v) == [ok |-> TRUE, val |-> v]
Raise(type, msg) == [ok |-> FALSE, err |-> [type |-> type, msg |-> msg]]

----------------------------------------------------------------------------
(* Helpers: coerce_json, as seen by its callers *)

\* The parsed value carries whether it is a dict; a JSON list is modelled
\* as the empty list.
coerce_json(r) ==
    CASE r.kind = "garbage" -> Raise("JSONDecodeError", <<"no valid JSON">>)
      [] r.kind = "array"   -> Ok([isdict |-> FALSE, d |-> EmptyDict])
      [] r.kind = "object"  -> Ok([isdict |-> TRUE, d |-> r.data])

----------------------------------------------------------------------------
(* generate_article *)

\* variant: the list checked in reverse order
REQUIRED_reversed == <<"attribution", "meta_description", "seo_title",
                       "body_paragraphs", "teaser_or_lead", "headline", "site">>

\* variant: attribution not checked
REQUIRED_noattr == <<"site", "headline", "teaser_or_lead", "body_paragraphs",
                     "seo_title", "meta_description">>

REQUIRED == <<"site", "headline", "teaser_or_lead", "body_paragraphs",
              "seo_title", "meta_description", "attribution">>

\* the fields the Article(...) constructor call reads with data[...], in
\* the order of its keyword arguments
INDEXED == <<"site", "headline", "teaser_or_lead", "body_paragraphs",
             "seo_title", "meta_description">>

\* index of the first key of the list ks that is not in the dict d, or 0
FirstMissing(d, ks) ==
    LET miss == {i \in 1..Len(ks) : ks[i] \notin DOMAIN d}
    IN  IF miss = {} THEN 0 ELSE CHOOSE i \in miss : \A j \in miss : i <= j

\* Article(site=data["site"], headline=data["headline"].strip(), ...)
ArticleFrom(p) ==
    IF ~p.isdict
    THEN Raise("TypeError", <<"list indices must be integers">>)
    ELSE LET data == p.d
             m == FirstMissing(data, INDEXED)
         IN  IF m # 0
             THEN Raise("KeyError", <<INDEXED[m]>>)
             ELSE Ok([site             |-> data["site"],
                      headline         |-> Strip(data["headline"]),
                      teaser_or_lead   |-> Strip(data["teaser_or_lead"]),
                      body_paragraphs  |-> [i \in 1..Len(data["body_paragraphs"]) |->
                                               Strip(data["body_paragraphs"][i])],
                      callout_optional |-> Get(data, "callout_optional", NoneVal),
                      seo_title        |-> Strip(data["seo_title"]),
                      meta_description |-> Strip(data["meta_description"]),
                      tags             |-> Get(data, "tags", <<>>),
                      attribution      |-> Get(data, "attribution", EmptyDict),
                      fact_table       |-> Get(data, "fact_table", NoneVal)])

\* generate_article, as a function of the response r of its chat_call
generate_article(r) ==
    IF r.kind = "transport"
    THEN Raise("APIError", <<"chat_call failed">>)
    ELSE LET c == coerce_json(r)
         IN  IF ~c.ok
             THEN Raise("ValueError", <<"Writer lieferte kein valides JSON">>)
             ELSE LET m == FirstMissing(c.val.d, REQUIRED)
                  IN  IF m # 0
                      THEN Raise("ValueError", <<"Feld", REQUIRED[m], "fehlt im Writer-Output">>)
                      ELSE ArticleFrom(c.val)

----------------------------------------------------------------------------
(* judge_article *)

\* judge_article, as a function of the response r of its chat_call
judge_article(r) ==
    IF r.kind = "transport"
    THEN Raise("APIError", <<"chat_call failed">>)
    ELSE LET c == coerce_json(r)
         IN  IF ~c.ok
             THEN Raise("ValueError", <<"Judge lieferte kein valides JSON">>)
             ELSE IF ~c.val.isdict
             THEN Raise("AttributeError", <<"'list' object has no attribute 'get'">>)
             ELSE LET data == c.val.d
                  IN  Ok([scores          |-> Get(data, "scores", EmptyDict),
                          violations      |-> Get(data, "violations", <<>>),
                          suggested_fixes |-> Get(data, "suggested_fixes", <<>>),
                          decision        |-> Get(data, "decision", "human_review"),
                          metrics         |-> Get(data, "metrics", NoneVal)])

----------------------------------------------------------------------------
(* maybe_revise *)

FlagReason(k) ==
    CASE k = "length_ok"    -> "length_ok == false korrigieren."
      [] k = "structure_ok" -> "structure_ok == false korrigieren."
      [] k = "safety_ok"    -> "safety_ok == false korrigieren."

\* variant: the score thresholds compared with <= instead of <
Reasons_inclusive(q) ==
    LET s  == q.scores
        r1 == IF Get(s, "factual_consistency", 0) <= THRESHOLD_FACTUAL
              THEN <<"Faktenkonsistenz erhoehen, ausschliesslich bestaetigte Inhalte nutzen.">>
              ELSE <<>>
        r2 == IF Get(s, "style_match", 0) <= THRESHOLD_STYLE
              THEN <<"Stil konsequent an das Style-Profile anpassen.">>
              ELSE <<>>
        fs == SelectSeq(FLAGS, LAMBDA k : ~Get(s, k, TRUE))
        r3 == [i \in 1..Len(fs) |-> FlagReason(fs[i])]
    IN  r1 \o r2 \o r3 \o q.violations \o q.suggested_fixes

\* variant: the decision tag of the verdict adds a reason
Reasons_decision(q) ==
    LET s  == q.scores
        r0 == IF q.decision # "auto_ok" THEN <<"Entscheidung des Judge beachten.">> ELSE <<>>
        r1 == IF Get(s, "factual_consistency", 0) < THRESHOLD_FACTUAL
              THEN <<"Faktenkonsistenz erhoehen, ausschliesslich bestaetigte Inhalte nutzen.">>
              ELSE <<>>
        r2 == IF Get(s, "style_match", 0) < THRESHOLD_STYLE
              THEN <<"Stil konsequent an das Style-Profile anpassen.">>
              ELSE <<>>
        fs == SelectSeq(FLAGS, LAMBDA k : ~Get(s, k, TRUE))
        r3 == [i \in 1..Len(fs) |-> FlagReason(fs[i])]
    IN  r0 \o r1 \o r2 \o r3 \o q.violations \o q.suggested_fixes

\* variant: an absent score counts as a full score
Reasons_absent(q) ==
    LET s  == q.scores
        r1 == IF Get(s, "factual_consistency", 100) < THRESHOLD_FACTUAL
              THEN <<"Faktenkonsistenz erhoehen, ausschliesslich bestaetigte Inhalte nutzen.">>
              ELSE <<>>
        r2 == IF Get(s, "style_match", 100) < THRESHOLD_STYLE
              THEN <<"Stil konsequent an das Style-Profile anpassen.">>
              ELSE <<>>
        fs == SelectSeq(FLAGS, LAMBDA k : ~Get(s, k, TRUE))
        r3 == [i \in 1..Len(fs) |-> FlagReason(fs[i])]
    IN  r1 \o r2 \o r3 \o q.violations \o q.suggested_fixes

\* the reason list of maybe_revise
Reasons(q) ==
    LET s  == q.scores
        r1 == IF Get(s, "factual_consistency", 0) < THRESHOLD_FACTUAL
              THEN <<"Faktenkonsistenz erhoehen, ausschliesslich bestaetigte Inhalte nutzen.">>
              ELSE <<>>
        r2 == IF Get(s, "style_match", 0) < THRESHOLD_STYLE
              THEN <<"Stil konsequent an das Style-Profile anpassen.">>
              ELSE <<>>
        fs == SelectSeq(FLAGS, LAMBDA k : ~Get(s, k, TRUE))
        r3 == [i \in 1..Len(fs) |-> FlagReason(fs[i])]
    IN  r1 \o r2 \o r3 \o q.violations \o q.suggested_fixes

\* the try block of maybe_revise: the corrected Article, or not ok when
\* the except branch is taken (return article, qc)
TryFixed(r) ==
    LET c == coerce_json(r)
    IN  IF ~c.ok THEN c ELSE ArticleFrom(c.val)

----------------------------------------------------------------------------
(* Inputs: the responses the external chat capability may give *)

Transport == [kind |-> "transport", data |-> EmptyDict]
Garbage   == [kind |-> "garbage",   data |-> EmptyDict]
JsonArray == [kind |-> "array",     data |-> EmptyDict]
Obj(d)    == [kind |-> "object",    data |-> d]

Chars == <<"a", "b", "c", "d">>

\* the t-th text, with surrounding blanks for strip() to remove
Text(t) == <<" ", Chars[t], " ">>

\* a complete article object for outlet o carrying text t
ArticleData(o, t) ==
    [site             |-> o,
     headline         |-> Text(t),
     teaser_or_lead   |-> Text(t),
     body_paragraphs  |-> <<Text(t), Text(t)>>,
     seo_title        |-> Text(t),
     meta_description |-> Text(t),
     attribution      |-> [source |-> "Polizei", source_url |-> ""]]

\* the empty value of a required field
EmptyOf(k) ==
    CASE k = "site"            -> ""
      [] k = "body_paragraphs" -> <<>>
      [] k = "attribution"     -> EmptyDict
      [] OTHER                 -> <<>>

EmptyFields == {"headline", "body_paragraphs", "attribution"}

\* article responses: failures of the call and of the parse, complete
\* objects, objects with 1..n required fields missing, objects with one
\* required field present but empty or blank
ArticleResponses(o, n) ==
    {Transport, Garbage, JsonArray}
    \cup {Obj(ArticleData(o, t)) : t \in 1..MaxText}
    \cup {Obj(Del(ArticleData(o, 1), K)) :
            K \in {S \in SUBSET DOMAIN ArticleData(o, 1) : Cardinality(S) \in 1..n}}
    \cup {Obj([ArticleData(o, 1) EXCEPT ![k] = EmptyOf(k)]) : k \in EmptyFields}
    \cup {Obj([ArticleData(o, 1) EXCEPT !["headline"] = <<" ">>])}

\* the short family: a failed call, an unparseable text, a complete object
ShortArticleResponses(o, t) == {Transport, Garbage, Obj(ArticleData(o, t))}

WriterResponses(o) ==
    IF o = focus THEN ArticleResponses(o, MaxMissing)
    ELSE ShortArticleResponses(o, 1)

CorrectionResponses(o) ==
    IF o = focus THEN ArticleResponses(o, 1)
    ELSE ShortArticleResponses(o, MaxText)

Decisions == {"auto_ok", "revise", "human_review"}

\* a verdict object that passes every check of maybe_revise
PassScores ==
    [factual_consistency |-> THRESHOLD_FACTUAL,
     style_match         |-> THRESHOLD_STYLE,
     length_ok           |-> TRUE,
     structure_ok        |-> TRUE,
     safety_ok           |-> TRUE]

VerdictData(sc, v, f, d) ==
    [scores |-> sc, violations |-> v, suggested_fixes |-> f, decision |-> d]

\* score mappings: passing ones, and ones deviating in one entry
ScoreVariants ==
    {PassScores,
     [PassScores EXCEPT !.factual_consistency = 100, !.style_match = 100],
     [PassScores EXCEPT !.factual_consistency = THRESHOLD_FACTUAL - 1],
     [PassScores EXCEPT !.style_match = THRESHOLD_STYLE - 1]}
    \cup {[PassScores EXCEPT ![k] = FALSE] : k \in Range(FLAGS)}

\* score mappings with one entry, or every entry, absent
PartialScores ==
    {Del(PassScores, {k}) : k \in DOMAIN PassScores} \cup {EmptyDict}

\* verdict objects: each score variant and each single non-empty list
\* under every decision tag; objects with absent entries
VerdictObjects ==
    {VerdictData(sc, <<>>, <<>>, d) : sc \in ScoreVariants, d \in Decisions}
    \cup {VerdictData(PassScores, <<"violation">>, <<>>, d) : d \in Decisions}
    \cup {VerdictData(PassScores, <<>>, <<"fix">>, d) : d \in Decisions}
    \cup {VerdictData(sc, <<>>, <<>>, "auto_ok") : sc \in PartialScores}
    \cup {Del(VerdictData(PassScores, <<>>, <<>>, "auto_ok"), {k}) :
            k \in {"scores", "violations", "suggested_fixes", "decision"}}

\* the short family: a failed call, a passing verdict, a failing verdict
ShortVerdictObjects ==
    {VerdictData(PassScores, <<>>, <<>>, "auto_ok"),
     VerdictData([PassScores EXCEPT !.factual_consistency = THRESHOLD_FACTUAL - 1],
                 <<>>, <<>>, "revise")}

JudgeResponses(o) ==
    IF o = focus
    THEN {Transport, Garbage, JsonArray} \cup {Obj(d) : d \in VerdictObjects}
    ELSE {Transport} \cup {Obj(d) : d \in ShortVerdictObjects}

----------------------------------------------------------------------------
(* The handler of the "Generieren" button *)

Idle == <<"idle", "-">>
Done == <<"done", "-">>
Render == <<"render", "-">>

\* number of chat_call invocations of one kind issued for outlet o
NCalls(kind, o) ==
    Cardinality({i \in DOMAIN calls : calls[i] = [kind |-> kind, outlet |-> o]})

\* the statement that follows generate_article for outlet o
StageAfterWrite(o) == IF o = EX THEN <<"write", KS>> ELSE <<"judge", EX>>

\* variant: the checkbox is not consulted
StageAfterJudge_always(o, revise) ==
    IF o = EX THEN <<"judge", KS>> ELSE <<"revise", EX>>

\* the statement that follows the first judge_article for outlet o
StageAfterJudge(o, revise) ==
    IF o = EX THEN <<"judge", KS>>
    ELSE IF revise THEN <<"revise", EX>> ELSE Render

\* variant: maybe_revise is repeated while the current verdict gives reasons
StageAfterRevise_loop(o) ==
    IF Reasons(qc[o]) # <<>> /\ NCalls("correct", o) < 2
    THEN <<"revise", o>>
    ELSE IF o = EX THEN <<"revise", KS>> ELSE Render

\* the statement that follows maybe_revise for outlet o
StageAfterRevise(o) == IF o = EX THEN <<"revise", KS>> ELSE Render

\* variant: the corrected article is returned with the verdict passed in
RevisedPair_stale(article, q, fx, q2) == [article |-> fx, qc |-> q]

\* what maybe_revise returns after the re-judge: return fixed, qc2
RevisedPair(article, q, fx, q2) == [article |-> fx, qc |-> q2]

Request(kind, o, article, reasons) ==
    [kind |-> kind, outlet |-> o, article |-> article, reasons |-> reasons]

Call(kind, o) == [kind |-> kind, outlet |-> o]

\* variant: the error is shown and the handler goes on to render
Fail_continue(e) ==
    /\ pc' = Render
    /\ banner' = "error"
    /\ err' = e
    /\ failedAt' = pc

\* variant: an exception raised inside maybe_revise is swallowed and the
\* pair passed in is kept
Fail_recover(e) ==
    IF pc[1] \in {"revise", "rejudge"}
    THEN /\ pc' = StageAfterRevise(pc[2])
         /\ UNCHANGED <<banner, err, failedAt>>
    ELSE /\ pc' = Done
         /\ banner' = "error"
         /\ err' = e
         /\ failedAt' = pc

\* except Exception as e: st.error(f"Fehler: {e}")
Fail(e) ==
    /\ pc' = Done
    /\ banner' = "error"
    /\ err' = e
    /\ failedAt' = pc

Init ==
    /\ pc = Idle
    /\ enable_revise \in BOOLEAN
    /\ art = [o \in Outlets |-> NoneVal]
    /\ qc = [o \in Outlets |-> NoneVal]
    /\ fixed = NoneVal
    /\ raw = NoneVal
    /\ req = NoneVal
    /\ calls = <<>>
    /\ judged = [o \in Outlets |-> NoneVal]
    /\ banner = "none"
    /\ err = NoneVal
    /\ failedAt = Idle
    /\ rendered = [o \in Outlets |-> NoneVal]
    /\ focus \in Outlets
    /\ canon = <<>>
    /\ noise = "none"
    /\ text = <<>>
    /\ coerced = NoneVal

\* if gen_btn: the two guards before the pipeline
Click ==
    /\ pc = Idle
    /\ \E hasKey \in BOOLEAN, hasText \in BOOLEAN :
          IF ~hasKey
          THEN /\ pc' = Done
               /\ banner' = "error"
               /\ err' = [type |-> "config", msg |-> <<"OPENAI_API_KEY fehlt">>]
          ELSE IF ~hasText
          THEN /\ pc' = Done
               /\ banner' = "warning"
               /\ err' = err
          ELSE /\ pc' = <<"write", EX>>
               /\ banner' = banner
               /\ err' = err
    /\ UNCHANGED <<enable_revise, art, qc, fixed, raw, req, calls, judged,
                   failedAt, rendered, focus, cvars>>

\* art_o = generate_article(STYLE_o, FEWSHOT_o, text)
Write(o) ==
    /\ pc = <<"write", o>>
    /\ \E r \in WriterResponses(o) :
          LET res == generate_article(r)
          IN  /\ raw' = r
              /\ req' = Request("write", o, NoneVal, <<>>)
              /\ calls' = Append(calls, Call("write", o))
              /\ IF res.ok
                 THEN /\ art' = [art EXCEPT ![o] = res.val]
                      /\ pc' = StageAfterWrite(o)
                      /\ UNCHANGED <<banner, err, failedAt>>
                 ELSE /\ Fail(res.err)
                      /\ UNCHANGED art
    /\ UNCHANGED <<enable_revise, qc, fixed, judged, rendered, focus, cvars>>

\* qc_o = judge_article(STYLE_o, art_o, text)
Judge(o) ==
    /\ pc = <<"judge", o>>
    /\ \E r \in JudgeResponses(o) :
          LET res == judge_article(r)
          IN  /\ raw' = r
              /\ req' = Request("judge", o, art[o], <<>>)
              /\ calls' = Append(calls, Call("judge", o))
              /\ IF res.ok
                 THEN /\ qc' = [qc EXCEPT ![o] = res.val]
                      /\ judged' = [judged EXCEPT ![o] = [article |-> art[o], qc |-> res.val]]
                      /\ pc' = StageAfterJudge(o, enable_revise)
                      /\ UNCHANGED <<banner, err, failedAt>>
                 ELSE /\ Fail(res.err)
                      /\ UNCHANGED <<qc, judged>>
    /\ UNCHANGED <<enable_revise, art, fixed, rendered, focus, cvars>>

\* art_o, qc_o = maybe_revise(STYLE_o, art_o, qc_o, text), up to the point
\* where it returns early or is about to call judge_article
Revise(o) ==
    /\ pc = <<"revise", o>>
    /\ LET reasons == Reasons(qc[o])
       IN  IF reasons = <<>>
           THEN /\ pc' = StageAfterRevise(o)
                /\ UNCHANGED <<fixed, raw, req, calls, banner, err, failedAt>>
           ELSE \E r \in CorrectionResponses(o) :
                  /\ raw' = r
                  /\ req' = Request("correct", o, art[o], reasons)
                  /\ calls' = Append(calls, Call("correct", o))
                  /\ IF r.kind = "transport"
                     THEN /\ Fail([type |-> "APIError", msg |-> <<"chat_call failed">>])
                          /\ UNCHANGED fixed
                     ELSE LET res == TryFixed(r)
                          IN  /\ IF res.ok
                                 THEN /\ fixed' = res.val
                                      /\ pc' = <<"rejudge", o>>
                                 ELSE /\ fixed' = fixed
                                      /\ pc' = StageAfterRevise(o)
                              /\ UNCHANGED <<banner, err, failedAt>>
    /\ UNCHANGED <<enable_revise, art, qc, judged, rendered, focus, cvars>>

\* qc2 = judge_article(site_profile, fixed, source_text); return fixed, qc2
Rejudge(o) ==
    /\ pc = <<"rejudge", o>>
    /\ \E r \in JudgeResponses(o) :
          LET res == judge_article(r)
          IN  /\ raw' = r
              /\ req' = Request("judge", o, fixed, <<>>)
              /\ calls' = Append(calls, Call("judge", o))
              /\ IF res.ok
                 THEN LET ret == RevisedPair(art[o], qc[o], fixed, res.val)
                      IN  /\ art' = [art EXCEPT ![o] = ret.article]
                          /\ qc' = [qc EXCEPT ![o] = ret.qc]
                          /\ judged' = [judged EXCEPT ![o] = [article |-> fixed, qc |-> res.val]]
                          /\ fixed' = NoneVal
                          /\ pc' = StageAfterRevise(o)
                          /\ UNCHANGED <<banner, err, failedAt>>
                 ELSE /\ Fail(res.err)
                      /\ UNCHANGED <<art, qc, judged, fixed>>
    /\ UNCHANGED <<enable_revise, rendered, focus, cvars>>

\* st.success("Fertig."); render_block(left, ...); render_block(right, ...)
Present ==
    /\ pc = Render
    /\ banner' = "success"
    /\ rendered' = [o \in Outlets |-> [article |-> art[o], qc |-> qc[o]]]
    /\ pc' = Done
    /\ UNCHANGED <<enable_revise, art, qc, fixed, raw, req, calls, judged,
                   err, failedAt, focus, cvars>>

Next ==
    \/ Click
    \/ \E o \in Outlets : Write(o)
    \/ \E o \in Outlets : Judge(o)
    \/ \E o \in Outlets : Revise(o)
    \/ \E o \in Outlets : Rejudge(o)
    \/ Present

Spec == Init /\ [][Next]_vars

----------------------------------------------------------------------------
(* Vocabulary of the properties *)

\* the most recent chat_call, when there is one
LastCall == calls[Len(calls)]

\* the required article fields, in the order the specification lists them
SpecFields == <<"site", "headline", "teaser_or_lead", "body_paragraphs",
                "seo_title", "meta_description", "attribution">>

\* the top-level keys the specification requires of a judge response
SpecVerdictKeys == {"scores", "violations", "suggested_fixes", "decision"}

ScoreKeys == {"factual_consistency", "style_match", "length_ok", "structure_ok", "safety_ok"}

\* the verdict has all five score entries
CompleteScores(q) == ScoreKeys \subseteq DOMAIN q.scores

\* the trigger condition as the specification words it
SpecTrigger(q) ==
    \/ q.scores["factual_consistency"] < 98
    \/ q.scores["style_match"] < 90
    \/ \E k \in {"length_ok", "structure_ok", "safety_ok"} : q.scores[k] = FALSE
    \/ q.violations # <<>>
    \/ q.suggested_fixes # <<>>

\* maybe_revise has returned for outlet o in a run that is still going
Revised(o) ==
    /\ enable_revise
    /\ \/ pc = Render
       \/ banner = "success"
       \/ o = EX /\ pc[1] \in {"revise", "rejudge"} /\ pc[2] = KS

----------------------------------------------------------------------------
(* C1 *)

\* C1: when maybe_revise is entered with a verdict whose factual_consistency
\* is >= 0.98, style_match >= 0.90, all three flags true and both lists
\* empty, it returns the input article and verdict and issues no call.
C1_FastPath ==
    [][\A o \in Outlets :
         (/\ pc = <<"revise", o>>
          /\ CompleteScores(qc[o])
          /\ ~SpecTrigger(qc[o]))
         => (/\ art' = art
             /\ qc' = qc
             /\ calls' = calls
             /\ raw' = raw
             /\ pc' \notin {Done, <<"rejudge", o>>})]_vars

C1_Witness ==
    /\ pc = Render
    /\ enable_revise
    /\ Len(calls) = 4
    /\ \A o \in Outlets : CompleteScores(qc[o]) /\ ~SpecTrigger(qc[o])

----------------------------------------------------------------------------
(* C2 *)

\* C2: in every run each outlet sees at most one correction request and at
\* most one re-judge call; an outlet whose verdict gives reasons when
\* maybe_revise has returned has had exactly one correction request, so a
\* corrected article that still fails is passed on as it is.
C2_AtMostOneCycle ==
    \A o \in Outlets :
        /\ NCalls("correct", o) <= 1
        /\ NCalls("judge", o) <= 2
        /\ NCalls("judge", o) = 2 => NCalls("correct", o) = 1
        /\ (Revised(o) /\ Reasons(qc[o]) # <<>>) => NCalls("correct", o) = 1

C2_Witness ==
    /\ banner = "success"
    /\ NCalls("correct", EX) = 1
    /\ NCalls("judge", EX) = 2
    /\ Reasons(rendered[EX].qc) # <<>>

----------------------------------------------------------------------------
(* C3 *)

\* C3: if a stage of one outlet fails, the other outlet's pipeline still
\* runs to completion and its article and verdict are presented.
C3_Independent ==
    \A o \in Outlets :
        (pc = Done /\ banner = "error" /\ failedAt[2] = o)
        => \A other \in Outlets \ {o} : rendered[other] # NoneVal

----------------------------------------------------------------------------
(* C4 *)

\* a response the specification counts as a failed correction: not an
\* object, or an object lacking one of the required article fields
SpecMalformedArticle(r) ==
    \/ r.kind \in {"garbage", "array"}
    \/ r.kind = "object" /\ \E i \in DOMAIN SpecFields : SpecFields[i] \notin DOMAIN r.data

\* C4: when the response to the correction request is not an object or
\* lacks a required article field, maybe_revise returns the original
\* article and verdict and makes no re-judge call.
C4_CorrectionFallback ==
    [][\A o \in Outlets :
         (/\ pc = <<"revise", o>>
          /\ calls' = Append(calls, Call("correct", o))
          /\ SpecMalformedArticle(raw'))
         => (/\ art' = art
             /\ qc' = qc
             /\ pc' \notin {Done, <<"rejudge", o>>})]_vars

----------------------------------------------------------------------------
(* C5 *)

\* C5: the pair held for an outlet, and the pair presented for it, is an
\* article with the verdict judge_article last returned for that article;
\* the re-judge is called on the corrected article, once, and its verdict
\* is returned with the corrected article.
C5_PairHeld ==
    \A o \in Outlets :
        /\ qc[o] # NoneVal => judged[o] = [article |-> art[o], qc |-> qc[o]]
        /\ rendered[o] # NoneVal => rendered[o] = judged[o]

C5_Rejudge ==
    [][\A o \in Outlets :
         (pc = <<"rejudge", o>> /\ pc' # pc)
         => (/\ req'.kind = "judge" /\ req'.article = fixed
             /\ calls' = Append(calls, Call("judge", o))
             /\ pc' # Done => (/\ art'[o] = fixed
                               /\ judged'[o] = [article |-> fixed, qc |-> qc'[o]]
                               /\ pc' # <<"rejudge", o>>))]_vars

C5_Pairing == []C5_PairHeld /\ C5_Rejudge

C5_Witness ==
    /\ banner = "success"
    /\ NCalls("correct", EX) = 1
    /\ NCalls("judge", EX) = 2
    /\ rendered[EX] = judged[EX]
    /\ rendered[EX].article.headline = <<Chars[MaxText]>>

----------------------------------------------------------------------------
(* C6 *)

\* C6: maybe_revise issues a correction request exactly when a score is
\* below its threshold, a flag is false or one of the two lists is
\* non-empty; the decision tag changes neither the reason list nor the
\* calls.  (Stated for verdicts that carry all five score entries.)
C6_DecisionIgnored ==
    \A o \in Outlets :
        qc[o] # NoneVal =>
            \A d \in Decisions :
                Reasons([qc[o] EXCEPT !.decision = d]) = Reasons(qc[o])

C6_TriggerStep ==
    [][\A o \in Outlets :
         (pc = <<"revise", o>> /\ CompleteScores(qc[o]))
         => /\ SpecTrigger(qc[o]) => (/\ calls' = Append(calls, Call("correct", o))
                                      /\ req'.reasons = Reasons(qc[o]))
            /\ ~SpecTrigger(qc[o]) => calls' = calls]_vars

C6_Trigger == []C6_DecisionIgnored /\ C6_TriggerStep

C6_Witness ==
    /\ pc = <<"rejudge", EX>>
    /\ qc[EX].decision = "auto_ok"
    /\ CompleteScores(qc[EX])
    /\ qc[EX].scores["style_match"] < 90
    /\ LastCall = Call("correct", EX)

----------------------------------------------------------------------------
(* C7 *)

\* C7: judge_article fails, and returns no verdict, whenever the parsed
\* judge response lacks one of scores, violations, suggested_fixes, decision.
C7_MalformedVerdict ==
    (/\ calls # <<>>
     /\ LastCall.kind = "judge"
     /\ raw.kind = "object"
     /\ ~(SpecVerdictKeys \subseteq DOMAIN raw.data))
    => (pc = Done /\ banner = "error")

----------------------------------------------------------------------------
(* C8 *)

\* the first required field, in the specification's order, absent from d
SpecFirstMissing(d) ==
    LET i == CHOOSE i \in DOMAIN SpecFields :
                 /\ SpecFields[i] \notin DOMAIN d
                 /\ \A j \in 1..(i - 1) : SpecFields[j] \in DOMAIN d
    IN  SpecFields[i]

\* C8: when the parsed writer response lacks a required field,
\* generate_article raises an error naming the first missing field in the
\* order site, headline, teaser_or_lead, body_paragraphs, seo_title,
\* meta_description, attribution, and returns no Article.
C8_IncompleteArticle ==
    (/\ calls # <<>>
     /\ LastCall.kind = "write"
     /\ raw.kind = "object"
     /\ \E i \in DOMAIN SpecFields : SpecFields[i] \notin DOMAIN raw.data)
    => (/\ pc = Done
        /\ banner = "error"
        /\ err.type = "ValueError"
        /\ err.msg = <<"Feld", SpecFirstMissing(raw.data), "fehlt im Writer-Output">>
        /\ art[LastCall.outlet] = NoneVal)

C8_Witness ==
    /\ calls # <<>>
    /\ LastCall.kind = "write"
    /\ raw.kind = "object"
    /\ DOMAIN raw.data = {"site", "headline", "body_paragraphs", "seo_title", "meta_description"}
    /\ err # NoneVal
    /\ err.msg = <<"Feld", "teaser_or_lead", "fehlt im Writer-Output">>

----------------------------------------------------------------------------
(* C9 *)

\* generate_article has just returned an Article for outlet o
Generated(o) ==
    /\ calls # <<>>
    /\ LastCall = Call("write", o)
    /\ pc # Done

----------------------------------------------------------------------------
(* C10 *)

\* C10: per outlet the calls come in the order writer, judge, correction;
\* judge_article is reached for an outlet only with that outlet's Article,
\* maybe_revise only with its first verdict; with the checkbox off no
\* correction request and no re-judge call is made and the presented pair
\* is the first-pass article and verdict.
C10_StageOrder ==
    /\ \A i \in DOMAIN calls :
          /\ calls[i].kind = "judge" =>
                \E j \in 1..(i - 1) : calls[j] = Call("write", calls[i].outlet)
          /\ calls[i].kind = "correct" =>
                \E j \in 1..(i - 1) : calls[j] = Call("judge", calls[i].outlet)
    /\ \A o \in Outlets :
          /\ pc = <<"judge", o>> => art[o] # NoneVal /\ qc[o] = NoneVal
          /\ pc[1] \in {"revise", "rejudge"} /\ pc[2] = o =>
                art[o] # NoneVal /\ qc[o] # NoneVal
          /\ qc[o] # NoneVal => art[o] # NoneVal
          /\ ~enable_revise =>
                /\ NCalls("correct", o) = 0
                /\ NCalls("judge", o) <= 1
                /\ pc[1] \notin {"revise", "rejudge"}
                /\ rendered[o] # NoneVal =>
                      /\ NCalls("write", o) = 1
                      /\ NCalls("judge", o) = 1
                      /\ rendered[o] = judged[o]

C10_Witness ==
    /\ ~enable_revise
    /\ banner = "success"
    /\ Len(calls) = 4
    /\ \A o \in Outlets : Reasons(rendered[o].qc) # <<>>

----------------------------------------------------------------------------
(* C11 *)

\* a chat_call of the run has failed, or returned a text that the calling
\* stage does not survive
StageRaised ==
    /\ calls # <<>>
    /\ \/ raw.kind = "transport"
       \/ LastCall.kind \in {"write", "judge"} /\ raw.kind \in {"garbage", "array"}

\* C11: in a run in which a stage raises an error the error is reported and
\* no article is rendered; an article is rendered only in a run in which
\* every invoked stage completed without error, and then both are.
C11_NoPartialArticle ==
    /\ StageRaised =>
          /\ banner = "error"
          /\ err # NoneVal
          /\ \A o \in Outlets : rendered[o] = NoneVal
    /\ banner = "error" => \A o \in Outlets : rendered[o] = NoneVal
    /\ (\E o \in Outlets : rendered[o] # NoneVal) =>
          /\ banner = "success"
          /\ err = NoneVal
          /\ failedAt = Idle
          /\ ~StageRaised
          /\ \A o \in Outlets :
                /\ rendered[o] # NoneVal
                /\ rendered[o].article # NoneVal
                /\ rendered[o].qc # NoneVal

C11_Witness ==
    /\ banner = "error"
    /\ failedAt = <<"rejudge", KS>>
    /\ raw.kind = "transport"
    /\ \A o \in Outlets : art[o] # NoneVal /\ qc[o] # NoneVal /\ rendered[o] = NoneVal

----------------------------------------------------------------------------
(* coerce_json on texts *)

(***************************************************************************)
(* A text is a tuple of characters.  The characters that matter to         *)
(* coerce_json are the braces, the straight double quote QUOT, the         *)
(* typographic quotes LDQUO, RDQUO (double) and RSQUO (single), the        *)
(* apostrophe, colon, comma and blank; every other character is a letter.  *)
(* A parsed JSON string is [str |-> text], a parsed JSON object is         *)
(* [obj |-> dict] with the dict keyed by the key texts.                    *)
(***************************************************************************)

\* longest stray prose put before or after the object
MaxProse == 2

QUOT == "QUOT"
LDQUO == "LDQUO"
RDQUO == "RDQUO"
RSQUO == "RSQUO"
APOS == "APOS"

\* JSON_BLOCK_RE.search(c): the match of \{[\s\S]*\}\s*$ that starts
\* leftmost, or NoneVal.  A match starts at a "{" that has, somewhere after
\* it, a "}" followed by blanks only up to the end; it runs to the end.
JSON_BLOCK_RE(c) ==
    LET starts == {i \in 1..Len(c) :
                      /\ c[i] = "{"
                      /\ \E j \in (i + 1)..Len(c) :
                            /\ c[j] = "}"
                            /\ \A k \in (j + 1)..Len(c) : c[k] = " "}
    IN  IF starts = {}
        THEN NoneVal
        ELSE [group0 |-> SubSeq(c, CHOOSE i \in starts : \A j \in starts : i <= j, Len(c))]

\* .replace(LDQUO, QUOT).replace(RDQUO, QUOT).replace(RSQUO, APOS)
ReplaceQuotes(c) ==
    [i \in 1..Len(c) |->
        CASE c[i] \in {LDQUO, RDQUO} -> QUOT
          [] c[i] = RSQUO            -> APOS
          [] OTHER                   -> c[i]]

\* position of the first non-blank character of s at or after i
RECURSIVE SkipWs(_, _)
SkipWs(s, i) == IF i <= Len(s) /\ s[i] = " " THEN SkipWs(s, i + 1) ELSE i

\* position of the first QUOT of s at or after i, or 0
RECURSIVE FindQuot(_, _)
FindQuot(s, i) ==
    IF i > Len(s) THEN 0
    ELSE IF s[i] = QUOT THEN i ELSE FindQuot(s, i + 1)

JFail == [ok |-> FALSE, val |-> NoneVal, pos |-> 0]

\* a JSON string starting at the QUOT at position i
ParseString(s, i) ==
    LET j == FindQuot(s, i + 1)
    IN  IF j = 0 THEN JFail
        ELSE [ok |-> TRUE, val |-> [str |-> SubSeq(s, i + 1, j - 1)], pos |-> j + 1]

RECURSIVE ParseValue(_, _)
RECURSIVE ParseMembers(_, _, _)

\* the members of an object from the key at position i on, acc being the
\* members read so far; a repeated key keeps the later value
ParseMembers(s, i, acc) ==
    IF i > Len(s) \/ s[i] # QUOT THEN JFail
    ELSE LET key == ParseString(s, i)
         IN  IF ~key.ok THEN JFail
             ELSE LET c == SkipWs(s, key.pos)
                  IN  IF c > Len(s) \/ s[c] # ":" THEN JFail
                      ELSE LET v == ParseValue(s, SkipWs(s, c + 1))
                           IN  IF ~v.ok THEN JFail
                               ELSE LET acc2 == (key.val.str :> v.val) @@ acc
                                        m == SkipWs(s, v.pos)
                                    IN  IF m > Len(s) THEN JFail
                                        ELSE IF s[m] = "}"
                                        THEN [ok |-> TRUE, val |-> [obj |-> acc2], pos |-> m + 1]
                                        ELSE IF s[m] = ","
                                        THEN ParseMembers(s, SkipWs(s, m + 1), acc2)
                                        ELSE JFail

\* a JSON value (string or object) starting at position i
ParseValue(s, i) ==
    IF i > Len(s) THEN JFail
    ELSE IF s[i] = QUOT THEN ParseString(s, i)
    ELSE IF s[i] = "{"
    THEN LET j == SkipWs(s, i + 1)
         IN  IF j <= Len(s) /\ s[j] = "}"
             THEN [ok |-> TRUE, val |-> [obj |-> <<>>], pos |-> j + 1]
             ELSE ParseMembers(s, j, <<>>)
    ELSE JFail

\* json.loads(s): one value with blanks around it and nothing else
json_loads(s) ==
    LET v == ParseValue(s, SkipWs(s, 1))
    IN  IF v.ok /\ SkipWs(s, v.pos) > Len(s)
        THEN Ok(v.val)
        ELSE Raise("JSONDecodeError", <<"no valid JSON">>)

\* coerce_json(text)
coerce_json_text(t) ==
    LET stripped  == Strip(t)
        m         == JSON_BLOCK_RE(stripped)
        candidate == IF m # NoneVal THEN m.group0 ELSE stripped
    IN  json_loads(ReplaceQuotes(candidate))

----------------------------------------------------------------------------
(* coerce_json alone: inputs and specification *)

\* the text of a JSON string with content w
Quoted(w) == <<QUOT>> \o w \o <<QUOT>>

\* clean object texts: one member, two members, no member, a nested
\* object, a string value that contains braces
Canon ==
    {<<"{">> \o Quoted(<<"k">>) \o <<":", " ">> \o Quoted(<<"v">>) \o <<"}">>,
     <<"{">> \o Quoted(<<"k">>) \o <<":">> \o Quoted(<<"v">>) \o <<",", " ">>
             \o Quoted(<<"a">>) \o <<":">> \o Quoted(<<"b">>) \o <<"}">>,
     <<"{", "}">>,
     <<"{">> \o Quoted(<<"k">>) \o <<":">>
             \o <<"{">> \o Quoted(<<"a">>) \o <<":">> \o Quoted(<<"v">>) \o <<"}">>
             \o <<"}">>,
     <<"{">> \o Quoted(<<"k">>) \o <<":">> \o Quoted(<<"{", "v", "}">>) \o <<"}">>}

ProseChars == {"p", ".", " "}

\* stray prose: up to MaxProse characters, not all blank, no brace
Prose ==
    {w \in UNION {[1..n -> ProseChars] : n \in 1..MaxProse} :
        \E i \in DOMAIN w : w[i] # " "}

\* the text t with its k-th straight double quote replaced by open (k odd)
\* or close (k even)
Typographic(t, open, close) ==
    [i \in 1..Len(t) |->
        IF t[i] # QUOT THEN t[i]
        ELSE IF Cardinality({j \in 1..i : t[j] = QUOT}) % 2 = 1 THEN open ELSE close]

\* the inputs made from the clean text t, by kind of noise
Noisy(t, kind) ==
    CASE kind = "clean"  -> {t, <<" ">> \o t \o <<" ">>}
      [] kind = "before" -> {w \o t : w \in Prose}
      [] kind = "after"  -> {t \o w : w \in Prose}
      [] kind = "quotes" -> {Typographic(t, LDQUO, RDQUO), Typographic(t, RDQUO, RDQUO)}

NoiseKinds == {"clean", "before", "after", "quotes"}

InitCoerce ==
    /\ pc = Idle
    /\ enable_revise = FALSE
    /\ art = [o \in Outlets |-> NoneVal]
    /\ qc = [o \in Outlets |-> NoneVal]
    /\ fixed = NoneVal
    /\ raw = NoneVal
    /\ req = NoneVal
    /\ calls = <<>>
    /\ judged = [o \in Outlets |-> NoneVal]
    /\ banner = "none"
    /\ err = NoneVal
    /\ failedAt = Idle
    /\ rendered = [o \in Outlets |-> NoneVal]
    /\ focus = EX
    /\ canon \in Canon
    /\ noise \in NoiseKinds
    /\ text \in Noisy(canon, noise)
    /\ coerced = NoneVal

\* data = coerce_json(raw)
Coerce ==
    /\ noise # "none"
    /\ coerced = NoneVal
    /\ coerced' = coerce_json_text(text)
    /\ UNCHANGED <<pc, enable_revise, art, qc, fixed, raw, req, calls, judged,
                   banner, err, failedAt, rendered, focus, canon, noise, text>>

NextCoerce == Coerce

SpecCoerce == InitCoerce /\ [][NextCoerce]_vars

----------------------------------------------------------------------------
(* C12 *)

\* coerce_json returned, for the input, the object it returns for the
\* clean text
SameAsClean ==
    LET c == coerce_json_text(canon)
    IN  c.ok /\ coerced.ok /\ coerced.val = c.val

\* C12: coercing a clean object text with stray prose before it, with
\* stray prose after it, or with its straight double quotes replaced by
\* typographic ones gives the same parsed object as coercing the clean
\* text.
C12_NoiseTolerant == coerced # NoneVal => SameAsClean

\* C12, the part that holds: prose before the object (without a brace),
\* blanks around it and typographic double quotes are tolerated; with
\* prose after the object coerce_json raises.
C12_PrefixAndQuotes ==
    coerced # NoneVal =>
        /\ noise \in {"clean", "before", "quotes"} => SameAsClean
        /\ noise = "after" => ~coerced.ok

----------------------------------------------------------------------------
(* C13 *)

FlagKeys == {"length_ok", "structure_ok", "safety_ok"}

\* every entry of the verdict that is present passes, and both lists are empty
PresentEntriesPass(q) ==
    /\ "factual_consistency" \in DOMAIN q.scores => q.scores["factual_consistency"] >= 98
    /\ "style_match" \in DOMAIN q.scores => q.scores["style_match"] >= 90
    /\ \A k \in FlagKeys : k \in DOMAIN q.scores => q.scores[k] = TRUE
    /\ q.violations = <<>>
    /\ q.suggested_fixes = <<>>

\* C13: in maybe_revise an absent score (factual_consistency, style_match)
\* counts as 0 and always leads to a correction request; an absent flag
\* counts as true and adds no reason; so a verdict with an empty scores
\* mapping and empty lists leads to a correction request, not the fast path.
C13_AbsentEntries ==
    [][\A o \in Outlets :
         pc = <<"revise", o>> =>
            LET s == qc[o].scores
            IN  /\ ("factual_consistency" \notin DOMAIN s \/ "style_match" \notin DOMAIN s)
                   => /\ calls' = Append(calls, Call("correct", o))
                      /\ \A k \in FlagKeys :
                            k \notin DOMAIN s => FlagReason(k) \notin Range(req'.reasons)
                /\ (/\ {"factual_consistency", "style_match"} \subseteq DOMAIN s
                    /\ PresentEntriesPass(qc[o]))
                   => (calls' = calls /\ art' = art /\ qc' = qc)]_vars

C13_Witness ==
    /\ pc = <<"rejudge", EX>>
    /\ qc[EX].scores = EmptyDict
    /\ qc[EX].violations = <<>>
    /\ qc[EX].suggested_fixes = <<>>
    /\ LastCall = Call("correct", EX)
    /\ Len(req.reasons) = 2

----------------------------------------------------------------------------
(* C14 *)

\* both outlets' first-pass articles and verdicts exist
FirstPassDone == \A o \in Outlets : art[o] # NoneVal /\ qc[o] # NoneVal

\* the run has ended in error and nothing is presented
EndedInError ==
    /\ pc = Done
    /\ banner = "error"
    /\ err # NoneVal
    /\ \A o \in Outlets : rendered[o] = NoneVal

\* C14: a failed correction call, and a failed re-judge call (the call
\* fails or the judge text cannot be parsed), are not recovered inside
\* maybe_revise: the run ends in error and neither outlet's result is
\* presented although both first-pass pairs exist; only a correction
\* response that cannot be turned into an Article is recovered.
C14_OnlyParseRecovered ==
    calls # <<>> =>
        /\ (LastCall.kind = "correct" /\ raw.kind = "transport")
           => (EndedInError /\ FirstPassDone)
        /\ (/\ LastCall.kind = "judge"
            /\ NCalls("judge", LastCall.outlet) = 2
            /\ raw.kind \in {"transport", "garbage"})
           => (EndedInError /\ FirstPassDone)
        /\ (LastCall.kind = "correct" /\ raw.kind \in {"garbage", "array"})
           => /\ banner # "error"
              /\ judged[LastCall.outlet] =
                    [article |-> art[LastCall.outlet], qc |-> qc[LastCall.outlet]]
              /\ NCalls("judge", LastCall.outlet) = 1

C14_Witness ==
    /\ EndedInError
    /\ FirstPassDone
    /\ failedAt = <<"rejudge", EX>>
    /\ raw.kind = "garbage"
    /\ NCalls("correct", EX) = 1

====
